---- MODULE Spec2Model ----
(***************************************************************************)
(* Model of the scripts of python_weekly.                                  *)
(*                                                                         *)
(*   src/string_test/difflib_test.py  builds difflib.SequenceMatcher       *)
(*       objects and queries them (find_longest_match, get_opcodes); the   *)
(*       matcher is modelled as the object the script constructs: its      *)
(*       fields are the variables, its methods the actions, each           *)
(*       translated statement by statement from the library routine the    *)
(*       script calls.                                                     *)
(*   src/basics/lambda.py  sorts a list of strings by the number of        *)
(*       distinct characters and prints it; a unit test compares stdout.   *)
(*                                                                         *)
(* Indices are Python's (0-based, half-open); At and Slice convert to      *)
(* TLA+ sequences.  Python's None for an optional list is the empty        *)
(* tuple << >>, and a present list xs is << xs >>.  The matcher only       *)
(* hashes its elements and compares them for equality, so an element is    *)
(* held as the string of its repr: the character 'a' is "a", the int 1     *)
(* is "1".                                                                 *)
(***************************************************************************)
EXTENDS Integers, Sequences, FiniteSets, TLC

VARIABLES
    a, b, isjunk,          \* SequenceMatcher(isjunk, a, b)
    b2j, bjunk, bpopular,  \* built once by __chain_b
    matching_blocks,       \* cache of get_matching_blocks(), None at first
    opcodes,               \* cache of get_opcodes(), None at first
    op, args, ret,         \* the query in hand, its arguments and what it returned
    cached,                \* whether that query was answered from a cache
    strings, strings_in,   \* lambda_test: the list, and the list as written
    stdout, lpc, test,     \* captured output, position in the test, its verdict
    fullbcount,            \* cache of quick_ratio(), None at first
    raised,                \* the exception the query in hand raised, "" for none
    pc, loc, tret,         \* threads querying one matcher: position, locals, result
    owner,                 \* the thread whose list self.opcodes refers to
    s1_in, todo, last, spc, \* the loop over reversed(get_opcodes()): s1 at first,
                           \* opcodes left, the opcode just applied, position
    text, pos,             \* the search loop: the text and where the next search starts
    found, rpc             \* the matches printed so far, position in the loop

evars == <<a, b, isjunk, b2j, bjunk, bpopular, matching_blocks, opcodes, op, args, ret, cached>>
lvars == <<strings, strings_in, stdout, lpc, test>>
xvars == <<fullbcount, raised>>
cvars == <<pc, loc, tret, owner>>
svars == <<s1_in, todo, last, spc>>
rvars == <<text, pos, found, rpc>>
vars == <<evars, lvars, xvars, cvars, svars, rvars>>

\* ---------------------------------------------------------------- bounds

MaxLen == 3
MaxStrings == 5
MaxLenInvalid == 2
MaxLenConc == 2
MaxLenScript == 3
MaxLenRatio == 3
MaxTextLen == 5

Alphabet == {"a", "b"}

\* ------------------------------------------------------- Python helpers

None == << >>
Some(x) == << x >>

Min(x, y) == IF x < y THEN x ELSE y
Max(x, y) == IF x > y THEN x ELSE y

\* s[i] for 0 <= i < len(s)
At(s, i) == s[i + 1]

\* s[lo:hi] for lo, hi >= 0: out-of-range bounds are clamped to len(s)
Slice(s, lo, hi) ==
    LET l == Min(lo, Len(s))
        h == Min(hi, Len(s))
    IN  IF h <= l THEN << >> ELSE [k \in 1..(h - l) |-> s[l + k]]

\* s[lo:hi] = t (and del s[lo:hi] with t = [])
SliceAssign(s, lo, hi, t) ==
    LET l == Min(lo, Len(s))
        h == Max(l, Min(hi, Len(s)))
    IN  Slice(s, 0, l) \o t \o Slice(s, h, Len(s))

\* d.get(k, default) of a dict held as a function
Get(d, k, default) == IF k \in DOMAIN d THEN d[k] ELSE default

Elements(s) == {s[k] : k \in 1..Len(s)}

SeqsUpTo(S, n) == UNION {[1..k -> S] : k \in 0..n}

\* ------------------------------------------------- SequenceMatcher.__chain_b

RECURSIVE IndicesFrom(_, _, _)
IndicesFrom(s, elt, i) ==
    IF i >= Len(s) THEN << >>
    ELSE IF At(s, i) = elt THEN <<i>> \o IndicesFrom(s, elt, i + 1)
    ELSE IndicesFrom(s, elt, i + 1)

\* the positions of elt in s, ascending
Indices(s, elt) == IndicesFrom(s, elt, 0)

\* isjunk(elt); an absent predicate (None) is never called
IsJunk(pred, elt) == (~pred.none) /\ elt \in pred.accepts

Junk(pred, s) == {elt \in Elements(s) : IsJunk(pred, elt)}

\* with autojunk (the default), elements filling more than 1% of a b of at
\* least 200 elements
Popular(pred, s) ==
    IF Len(s) >= 200
    THEN {elt \in Elements(s) \ Junk(pred, s) :
              Len(Indices(s, elt)) > (Len(s) \div 100) + 1}
    ELSE {}

\* b2j without the junk and the popular elements
B2J(s, junk, popular) == [elt \in (Elements(s) \ junk) \ popular |-> Indices(s, elt)]

\* ---------------------------------------- SequenceMatcher.find_longest_match

\* InnerLoop with "if k >= bestsize": among equal sizes the last match wins
RECURSIVE InnerLoop_LastWins(_, _, _, _, _, _, _)
InnerLoop_LastWins(js, n, i, blo, bhi, j2len, st) ==
    IF n > Len(js) THEN st
    ELSE LET j == js[n] IN
         IF j < blo THEN InnerLoop_LastWins(js, n + 1, i, blo, bhi, j2len, st)
         ELSE IF j >= bhi THEN st
         ELSE LET k == Get(j2len, j - 1, 0) + 1
                  new == (j :> k) @@ st.newj2len
                  st2 == IF k >= st.bestsize
                         THEN [besti |-> i - k + 1, bestj |-> j - k + 1,
                               bestsize |-> k, newj2len |-> new]
                         ELSE [st EXCEPT !.newj2len = new]
              IN  InnerLoop_LastWins(js, n + 1, i, blo, bhi, j2len, st2)

\* InnerLoop without "if j >= bhi: break"
RECURSIVE InnerLoop_NoBreak(_, _, _, _, _, _, _)
InnerLoop_NoBreak(js, n, i, blo, bhi, j2len, st) ==
    IF n > Len(js) THEN st
    ELSE LET j == js[n] IN
         IF j < blo THEN InnerLoop_NoBreak(js, n + 1, i, blo, bhi, j2len, st)
         ELSE LET k == Get(j2len, j - 1, 0) + 1
                  new == (j :> k) @@ st.newj2len
                  st2 == IF k > st.bestsize
                         THEN [besti |-> i - k + 1, bestj |-> j - k + 1,
                               bestsize |-> k, newj2len |-> new]
                         ELSE [st EXCEPT !.newj2len = new]
              IN  InnerLoop_NoBreak(js, n + 1, i, blo, bhi, j2len, st2)

\* for j in b2j.get(a[i], nothing): ... ; st is (besti, bestj, bestsize, newj2len)
RECURSIVE InnerLoop(_, _, _, _, _, _, _)
InnerLoop(js, n, i, blo, bhi, j2len, st) ==
    IF n > Len(js) THEN st
    ELSE LET j == js[n] IN
         IF j < blo THEN InnerLoop(js, n + 1, i, blo, bhi, j2len, st)
         ELSE IF j >= bhi THEN st
         ELSE LET k == Get(j2len, j - 1, 0) + 1
                  new == (j :> k) @@ st.newj2len
                  st2 == IF k > st.bestsize
                         THEN [besti |-> i - k + 1, bestj |-> j - k + 1,
                               bestsize |-> k, newj2len |-> new]
                         ELSE [st EXCEPT !.newj2len = new]
              IN  InnerLoop(js, n + 1, i, blo, bhi, j2len, st2)

\* for i in range(alo, ahi): newj2len = {}; ...; j2len = newj2len
\* (st.newj2len of the row before is this row's j2len)
RECURSIVE OuterLoop(_, _, _, _, _, _)
OuterLoop(self, i, ahi, blo, bhi, st) ==
    IF i >= ahi THEN st
    ELSE OuterLoop(self, i + 1, ahi, blo, bhi,
                   InnerLoop(Get(self.b2j, At(self.a, i), << >>), 1, i, blo, bhi,
                             st.newj2len, [st EXCEPT !.newj2len = << >>]))

\* while besti > alo and bestj > blo and isbjunk(b[bestj-1]) == junk
\*       and a[besti-1] == b[bestj-1]: extend to the left
RECURSIVE ExtendLeft(_, _, _, _, _)
ExtendLeft(self, alo, blo, junk, m) ==
    IF /\ m.besti > alo
       /\ m.bestj > blo
       /\ (At(self.b, m.bestj - 1) \in self.bjunk) = junk
       /\ At(self.a, m.besti - 1) = At(self.b, m.bestj - 1)
    THEN ExtendLeft(self, alo, blo, junk,
                    [m EXCEPT !.besti = m.besti - 1, !.bestj = m.bestj - 1,
                              !.bestsize = m.bestsize + 1])
    ELSE m

\* ExtendRight bounded by len(a) and len(b) instead of ahi and bhi
RECURSIVE ExtendRight_ToEnd(_, _, _, _, _)
ExtendRight_ToEnd(self, ahi, bhi, junk, m) ==
    IF /\ m.besti + m.bestsize < Len(self.a)
       /\ m.bestj + m.bestsize < Len(self.b)
       /\ (At(self.b, m.bestj + m.bestsize) \in self.bjunk) = junk
       /\ At(self.a, m.besti + m.bestsize) = At(self.b, m.bestj + m.bestsize)
    THEN ExtendRight_ToEnd(self, ahi, bhi, junk, [m EXCEPT !.bestsize = m.bestsize + 1])
    ELSE m

\* while besti+bestsize < ahi and bestj+bestsize < bhi
\*       and isbjunk(b[bestj+bestsize]) == junk
\*       and a[besti+bestsize] == b[bestj+bestsize]: extend to the right
RECURSIVE ExtendRight(_, _, _, _, _)
ExtendRight(self, ahi, bhi, junk, m) ==
    IF /\ m.besti + m.bestsize < ahi
       /\ m.bestj + m.bestsize < bhi
       /\ (At(self.b, m.bestj + m.bestsize) \in self.bjunk) = junk
       /\ At(self.a, m.besti + m.bestsize) = At(self.b, m.bestj + m.bestsize)
    THEN ExtendRight(self, ahi, bhi, junk, [m EXCEPT !.bestsize = m.bestsize + 1])
    ELSE m

\* Match(besti, bestj, bestsize) as the tuple <<a, b, size>>
Match(m) == <<m.besti, m.bestj, m.bestsize>>

\* find_longest_match without the two loops that extend through junk
find_longest_match_NoJunkExtension(self, alo, ahi, blo, bhi) ==
    Match(
      ExtendRight(self, ahi, bhi, FALSE,
        ExtendLeft(self, alo, blo, FALSE,
          OuterLoop(self, alo, ahi, blo, bhi,
                    [besti |-> alo, bestj |-> blo, bestsize |-> 0,
                     newj2len |-> << >>]))))

\* besti, bestj, bestsize = alo, blo, 0; the search over b2j; the extension
\* through equal non-junk elements, left then right; then the extension
\* through equal junk elements, left then right
find_longest_match(self, alo, ahi, blo, bhi) ==
    Match(
      ExtendRight(self, ahi, bhi, TRUE,
        ExtendLeft(self, alo, blo, TRUE,
          ExtendRight(self, ahi, bhi, FALSE,
            ExtendLeft(self, alo, blo, FALSE,
              OuterLoop(self, alo, ahi, blo, bhi,
                        [besti |-> alo, bestj |-> blo, bestsize |-> 0,
                         newj2len |-> << >>]))))))

\* ---------------------------------------- SequenceMatcher.get_matching_blocks

\* Pending whose range right of the match starts at blo instead of j + k
Pending_RightFromBlo(queue, r, x) ==
    (IF r[1] < x[1] /\ r[3] < x[2] THEN <<<<r[1], x[1], r[3], x[2]>>>> ELSE << >>)
    \o (IF x[1] + x[3] < r[2] /\ r[3] < r[4]
        THEN <<<<x[1] + x[3], r[2], r[3], r[4]>>>>
        ELSE << >>)

\* what is appended to the queue after a match x = (i, j, k), k > 0, found in
\* r = (alo, ahi, blo, bhi): the range left of the match, then the range
\* right of it
Pending(queue, r, x) ==
    (IF r[1] < x[1] /\ r[3] < x[2] THEN <<<<r[1], x[1], r[3], x[2]>>>> ELSE << >>)
    \o (IF x[1] + x[3] < r[2] /\ x[2] + x[3] < r[4]
        THEN <<<<x[1] + x[3], r[2], x[2] + x[3], r[4]>>>>
        ELSE << >>)

\* while queue: alo, ahi, blo, bhi = queue.pop(); x = find_longest_match(...); ...
RECURSIVE QueueLoop(_, _, _)
RECURSIVE QueueStep(_, _, _, _, _)
QueueStep(self, rest, blocks, r, x) ==
    IF x[3] # 0
    THEN QueueLoop(self, rest \o Pending(rest, r, x), Append(blocks, x))
    ELSE QueueLoop(self, rest, blocks)

QueueLoop(self, queue, blocks) ==
    IF queue = << >> THEN blocks
    ELSE QueueStep(self, SubSeq(queue, 1, Len(queue) - 1), blocks, queue[Len(queue)],
                   find_longest_match(self, queue[Len(queue)][1], queue[Len(queue)][2],
                                      queue[Len(queue)][3], queue[Len(queue)][4]))

\* tuple order of Python: (i1, j1, k1) < (i2, j2, k2)
TupleLess(x, y) ==
    \/ x[1] < y[1]
    \/ x[1] = y[1] /\ x[2] < y[2]
    \/ x[1] = y[1] /\ x[2] = y[2] /\ x[3] < y[3]

\* x put into the sorted list s after every element that is not greater
RECURSIVE InsertBlock(_, _)
InsertBlock(s, x) ==
    IF s = << >> THEN <<x>>
    ELSE IF TupleLess(x, Head(s)) THEN <<x>> \o s
    ELSE <<Head(s)>> \o InsertBlock(Tail(s), x)

\* matching_blocks.sort()
RECURSIVE SortBlocks(_)
SortBlocks(s) ==
    IF s = << >> THEN << >>
    ELSE InsertBlock(SortBlocks(SubSeq(s, 1, Len(s) - 1)), s[Len(s)])

\* MergeLoop without the test "i1 + k1 == i2 and j1 + k1 == j2": every block
\* is kept as found
RECURSIVE MergeLoop_NoMerge(_, _, _, _)
MergeLoop_NoMerge(blocks, n, cur, non_adjacent) ==
    IF n > Len(blocks)
    THEN IF cur[3] # 0 THEN Append(non_adjacent, cur) ELSE non_adjacent
    ELSE MergeLoop_NoMerge(blocks, n + 1, blocks[n],
                           IF cur[3] # 0 THEN Append(non_adjacent, cur) ELSE non_adjacent)

\* for i2, j2, k2 in matching_blocks: collapse adjacent equal blocks;
\* cur is (i1, j1, k1)
RECURSIVE MergeLoop(_, _, _, _)
MergeLoop(blocks, n, cur, non_adjacent) ==
    IF n > Len(blocks)
    THEN IF cur[3] # 0 THEN Append(non_adjacent, cur) ELSE non_adjacent
    ELSE LET i2 == blocks[n][1]
             j2 == blocks[n][2]
             k2 == blocks[n][3]
         IN  IF cur[1] + cur[3] = i2 /\ cur[2] + cur[3] = j2
             THEN MergeLoop(blocks, n + 1, <<cur[1], cur[2], cur[3] + k2>>, non_adjacent)
             ELSE MergeLoop(blocks, n + 1, <<i2, j2, k2>>,
                            IF cur[3] # 0 THEN Append(non_adjacent, cur) ELSE non_adjacent)

\* the list a first call computes and stores
ComputeMatchingBlocks(self) ==
    Append(MergeLoop(SortBlocks(QueueLoop(self, <<<<0, Len(self.a), 0, Len(self.b)>>>>, << >>)),
                     1, <<0, 0, 0>>, << >>),
           <<Len(self.a), Len(self.b), 0>>)

get_matching_blocks(self) ==
    IF self.matching_blocks # None
    THEN self.matching_blocks[1]
    ELSE ComputeMatchingBlocks(self)

\* ------------------------------------------------ SequenceMatcher.get_opcodes

\* OpcodeLoop with the tags of the one-sided gaps exchanged
RECURSIVE OpcodeLoop_SwappedTags(_, _, _, _, _)
OpcodeLoop_SwappedTags(blocks, n, i, j, answer) ==
    IF n > Len(blocks) THEN answer
    ELSE LET ai == blocks[n][1]
             bj == blocks[n][2]
             size == blocks[n][3]
             tag == IF i < ai /\ j < bj THEN "replace"
                    ELSE IF i < ai THEN "insert"
                    ELSE IF j < bj THEN "delete"
                    ELSE ""
             ans1 == IF tag # "" THEN Append(answer, <<tag, i, ai, j, bj>>) ELSE answer
             ans2 == IF size # 0
                     THEN Append(ans1, <<"equal", ai, ai + size, bj, bj + size>>)
                     ELSE ans1
         IN  OpcodeLoop_SwappedTags(blocks, n + 1, ai + size, bj + size, ans2)

\* OpcodeLoop that tests "i < ai" before "i < ai and j < bj"
RECURSIVE OpcodeLoop_DeleteFirst(_, _, _, _, _)
OpcodeLoop_DeleteFirst(blocks, n, i, j, answer) ==
    IF n > Len(blocks) THEN answer
    ELSE LET ai == blocks[n][1]
             bj == blocks[n][2]
             size == blocks[n][3]
             tag == IF i < ai THEN "delete"
                    ELSE IF i < ai /\ j < bj THEN "replace"
                    ELSE IF j < bj THEN "insert"
                    ELSE ""
             ans1 == IF tag # "" THEN Append(answer, <<tag, i, ai, j, bj>>) ELSE answer
             ans2 == IF size # 0
                     THEN Append(ans1, <<"equal", ai, ai + size, bj, bj + size>>)
                     ELSE ans1
         IN  OpcodeLoop_DeleteFirst(blocks, n + 1, ai + size, bj + size, ans2)

\* OpcodeLoop with "i, j = ai+size, bj": j is not moved past the block
RECURSIVE OpcodeLoop_StaleJ(_, _, _, _, _)
OpcodeLoop_StaleJ(blocks, n, i, j, answer) ==
    IF n > Len(blocks) THEN answer
    ELSE LET ai == blocks[n][1]
             bj == blocks[n][2]
             size == blocks[n][3]
             tag == IF i < ai /\ j < bj THEN "replace"
                    ELSE IF i < ai THEN "delete"
                    ELSE IF j < bj THEN "insert"
                    ELSE ""
             ans1 == IF tag # "" THEN Append(answer, <<tag, i, ai, j, bj>>) ELSE answer
             ans2 == IF size # 0
                     THEN Append(ans1, <<"equal", ai, ai + size, bj, bj + size>>)
                     ELSE ans1
         IN  OpcodeLoop_StaleJ(blocks, n + 1, ai + size, bj, ans2)

\* for ai, bj, size in self.get_matching_blocks(): ...
RECURSIVE OpcodeLoop(_, _, _, _, _)
OpcodeLoop(blocks, n, i, j, answer) ==
    IF n > Len(blocks) THEN answer
    ELSE LET ai == blocks[n][1]
             bj == blocks[n][2]
             size == blocks[n][3]
             tag == IF i < ai /\ j < bj THEN "replace"
                    ELSE IF i < ai THEN "delete"
                    ELSE IF j < bj THEN "insert"
                    ELSE ""
             ans1 == IF tag # "" THEN Append(answer, <<tag, i, ai, j, bj>>) ELSE answer
             ans2 == IF size # 0
                     THEN Append(ans1, <<"equal", ai, ai + size, bj, bj + size>>)
                     ELSE ans1
         IN  OpcodeLoop(blocks, n + 1, ai + size, bj + size, ans2)

get_opcodes(self) ==
    IF self.opcodes # None
    THEN self.opcodes[1]
    ELSE OpcodeLoop(get_matching_blocks(self), 1, 0, 0, << >>)

\* --------------------------------------- the script's use of the opcodes

\* one pass of the body of the loop over the opcodes: del s1[i1:i2] for
\* delete, s1[i1:i2] = s2[j1:j2] for insert and replace, nothing for equal
ApplyOpcode(s1, s2, opc) ==
    IF opc[1] = "delete" THEN SliceAssign(s1, opc[2], opc[3], << >>)
    ELSE IF opc[1] = "equal" THEN s1
    ELSE IF opc[1] = "insert" THEN SliceAssign(s1, opc[2], opc[3], Slice(s2, opc[4], opc[5]))
    ELSE IF opc[1] = "replace" THEN SliceAssign(s1, opc[2], opc[3], Slice(s2, opc[4], opc[5]))
    ELSE s1

\* ------------------------------------------------------ the matcher object

\* SequenceMatcher(isjunk, a, b): __init__, set_seqs and __chain_b
New(pred, s1, s2) ==
    [a |-> s1, b |-> s2, isjunk |-> pred,
     b2j |-> B2J(s2, Junk(pred, s2), Popular(pred, s2)),
     bjunk |-> Junk(pred, s2),
     bpopular |-> Popular(pred, s2),
     matching_blocks |-> None, opcodes |-> None, fullbcount |-> None]

\* the object as it is now
Self ==
    [a |-> a, b |-> b, isjunk |-> isjunk,
     b2j |-> b2j, bjunk |-> bjunk, bpopular |-> bpopular,
     matching_blocks |-> matching_blocks, opcodes |-> opcodes,
     fullbcount |-> fullbcount]

NoJunk == [none |-> TRUE, accepts |-> {}]
JunkOf(S) == [none |-> FALSE, accepts |-> S]

\* the variables hold the fields of the object o
Holds(o) ==
    /\ a = o.a
    /\ b = o.b
    /\ isjunk = o.isjunk
    /\ b2j = o.b2j
    /\ bjunk = o.bjunk
    /\ bpopular = o.bpopular
    /\ matching_blocks = o.matching_blocks
    /\ opcodes = o.opcodes
    /\ fullbcount = o.fullbcount

Construct(pred, s1, s2) ==
        /\ Holds(New(pred, s1, s2))
        /\ op = "ready"
        /\ args = << >>
        /\ ret = << >>
        /\ cached = FALSE
        /\ raised = ""

LambdaIdle ==
    /\ strings = << >>
    /\ strings_in = << >>
    /\ stdout = << >>
    /\ lpc = "idle"
    /\ test = "none"

Threads == {1, 2}

\* the locals of a thread that is in no call
IdleLoc ==
    [op |-> "", args |-> << >>, i |-> 0, j |-> 0, n |-> 0,
     blocks |-> << >>, answer |-> << >>]

\* no thread has been started
ThreadsIdle ==
    /\ pc = [t \in Threads |-> "idle"]
    /\ loc = [t \in Threads |-> IdleLoc]
    /\ tret = [t \in Threads |-> << >>]
    /\ owner = 0

\* the search loop is not running
SearchIdle ==
    /\ text = << >>
    /\ pos = 0
    /\ found = << >>
    /\ rpc = "idle"

\* the loop over the opcodes is not running
ScriptIdle ==
    /\ s1_in = << >>
    /\ todo = << >>
    /\ last = << >>
    /\ spc = "idle"

\* the matchers of the script, and matchers over every pair of short sequences
Init ==
    /\ LambdaIdle
    /\ ThreadsIdle
    /\ SearchIdle
    /\ ScriptIdle
    /\ \/ \E s1 \in SeqsUpTo(Alphabet, MaxLen), s2 \in SeqsUpTo(Alphabet, MaxLen),
             pred \in {NoJunk} \cup {JunkOf(S) : S \in SUBSET Alphabet} :
               Construct(pred, s1, s2)
       \/ Construct(NoJunk, <<" ", "a", "b", "c", "d">>,
                    <<"a", "b", "c", "d", " ", "a", "b", "c", "d">>)
       \/ Construct(JunkOf({" "}), <<" ", "a", "b", "c", "d">>,
                    <<"a", "b", "c", "d", " ", "a", "b", "c", "d">>)
       \/ Construct(NoJunk, <<"1", "2", "3", "5", "6", "4">>,
                    <<"2", "3", "5", "4", "6", "1">>)
       \/ Construct(NoJunk, << >>, <<"1", "2", "3">>)
       \/ Construct(NoJunk, <<"x">>, <<"y">>)

FindLongestMatch ==
    \E alo \in 0..Len(a), ahi \in 0..Len(a), blo \in 0..Len(b), bhi \in 0..Len(b) :
        /\ op = "ready"
        /\ alo <= ahi
        /\ blo <= bhi
        /\ op' = "find_longest_match"
        /\ cached' = FALSE
        /\ args' = <<alo, ahi, blo, bhi>>
        /\ ret' = find_longest_match(Self, alo, ahi, blo, bhi)
        /\ UNCHANGED <<a, b, isjunk, b2j, bjunk, bpopular, matching_blocks, opcodes>>
        /\ UNCHANGED <<lvars, xvars, cvars, svars, rvars>>

\* GetMatchingBlocks that stores the list before the sentinel is appended
GetMatchingBlocks_CacheWithoutSentinel ==
    /\ op = "ready"
    /\ op' = "get_matching_blocks"
    /\ cached' = (matching_blocks # None)
    /\ args' = << >>
    /\ ret' = get_matching_blocks(Self)
    /\ matching_blocks' = IF matching_blocks # None
                          THEN matching_blocks
                          ELSE Some(SubSeq(ret', 1, Len(ret') - 1))
    /\ UNCHANGED <<a, b, isjunk, b2j, bjunk, bpopular, opcodes>>
    /\ UNCHANGED <<lvars, xvars, cvars, svars, rvars>>

\* self.matching_blocks is the list returned, stored by the first call
GetMatchingBlocks ==
    /\ op = "ready"
    /\ op' = "get_matching_blocks"
    /\ cached' = (matching_blocks # None)
    /\ args' = << >>
    /\ ret' = get_matching_blocks(Self)
    /\ matching_blocks' = Some(ret')
    /\ UNCHANGED <<a, b, isjunk, b2j, bjunk, bpopular, opcodes>>
    /\ UNCHANGED <<lvars, xvars, cvars, svars, rvars>>

\* self.opcodes is the list returned; a first call also runs
\* get_matching_blocks(), which stores its list
GetOpcodes ==
    /\ op = "ready"
    /\ op' = "get_opcodes"
    /\ cached' = (opcodes # None)
    /\ args' = << >>
    /\ ret' = get_opcodes(Self)
    /\ opcodes' = Some(ret')
    /\ matching_blocks' = IF opcodes # None
                          THEN matching_blocks
                          ELSE Some(get_matching_blocks(Self))
    /\ UNCHANGED <<a, b, isjunk, b2j, bjunk, bpopular>>
    /\ UNCHANGED <<lvars, xvars, cvars, svars, rvars>>

\* the caller has taken the result and is ready for its next query
Return ==
    /\ op # "ready"
    /\ op' = "ready"
    /\ args' = << >>
    /\ ret' = << >>
    /\ cached' = FALSE
    /\ UNCHANGED <<a, b, isjunk, b2j, bjunk, bpopular, matching_blocks, opcodes>>
    /\ UNCHANGED <<lvars, xvars, cvars, svars, rvars>>

Next ==
    \/ FindLongestMatch
    \/ GetMatchingBlocks
    \/ GetOpcodes
    \/ Return

Spec == Init /\ [][Next]_vars

\* -------------------------------- find_longest_match with an inverted range

\* matchers over every pair of sequences of at most MaxLenInvalid elements
InitInvalid ==
    /\ LambdaIdle
    /\ ThreadsIdle
    /\ SearchIdle
    /\ ScriptIdle
    /\ \E s1 \in SeqsUpTo(Alphabet, MaxLenInvalid), s2 \in SeqsUpTo(Alphabet, MaxLenInvalid),
          pred \in {NoJunk} \cup {JunkOf(S) : S \in SUBSET Alphabet} :
            Construct(pred, s1, s2)

\* find_longest_match(alo, ahi, blo, bhi) with alo > ahi or blo > bhi: the
\* method has no check of its arguments and no raise statement, it runs the
\* same loops
FindLongestMatchInvalidRange ==
    \E alo \in 0..Len(a), ahi \in 0..Len(a), blo \in 0..Len(b), bhi \in 0..Len(b) :
        /\ op = "ready"
        /\ ~(alo <= ahi /\ blo <= bhi)
        /\ op' = "find_longest_match"
        /\ cached' = FALSE
        /\ args' = <<alo, ahi, blo, bhi>>
        /\ ret' = find_longest_match(Self, alo, ahi, blo, bhi)
        /\ raised' = ""
        /\ UNCHANGED <<a, b, isjunk, b2j, bjunk, bpopular, matching_blocks, opcodes>>
        /\ UNCHANGED <<lvars, fullbcount, cvars, svars, rvars>>

NextInvalid ==
    \/ FindLongestMatch
    \/ FindLongestMatchInvalidRange
    \/ GetMatchingBlocks
    \/ GetOpcodes
    \/ Return

SpecInvalid == InitInvalid /\ [][NextInvalid]_vars

\* ------------------------------------------------------ basics/lambda.py

\* a str is the tuple of its characters
foo == <<"f", "o", "o">>
card == <<"c", "a", "r", "d">>
bar == <<"b", "a", "r">>
aaaa == <<"a", "a", "a", "a">>
abab == <<"a", "b", "a", "b">>

\* strings = ['foo', 'card', 'bar', 'aaaa', 'abab']
Strings == <<foo, card, bar, aaaa, abab>>

Words == Elements(Strings)

\* key=lambda x: len(set(x))
Key(x) == Cardinality(Elements(x))

\* InsertByKey with "<=": x is put before the elements of equal key
RECURSIVE InsertByKey_Unstable(_, _)
InsertByKey_Unstable(s, x) ==
    IF s = << >> THEN <<x>>
    ELSE IF Key(x) <= Key(Head(s)) THEN <<x>> \o s
    ELSE <<Head(s)>> \o InsertByKey_Unstable(Tail(s), x)

\* x put into the sorted list s after every element whose key is not greater
RECURSIVE InsertByKey(_, _)
InsertByKey(s, x) ==
    IF s = << >> THEN <<x>>
    ELSE IF Key(x) < Key(Head(s)) THEN <<x>> \o s
    ELSE <<Head(s)>> \o InsertByKey(Tail(s), x)

\* strings.sort(key=...): for a list this short, an insertion sort that
\* never moves an element past one with an equal key
RECURSIVE SortByKey(_)
SortByKey(s) ==
    IF s = << >> THEN << >>
    ELSE InsertByKey(SortByKey(SubSeq(s, 1, Len(s) - 1)), s[Len(s)])

\* sep.join(list)
RECURSIVE Join(_, _)
Join(sep, list) ==
    IF list = << >> THEN << >>
    ELSE IF Len(list) = 1 THEN list[1]
    ELSE list[1] \o sep \o Join(sep, Tail(list))

\* 'aaaa foo abab bar card\n'
Expected ==
    <<"a", "a", "a", "a", " ", "f", "o", "o", " ", "a", "b", "a", "b", " ",
      "b", "a", "r", " ", "c", "a", "r", "d", "\n">>

EngineIdle == Construct(NoJunk, << >>, << >>)

\* lambda_test() about to run under redirect_stdout, on the list of the
\* script and on every short list of its words
InitLambda ==
    /\ EngineIdle
    /\ ThreadsIdle
    /\ SearchIdle
    /\ ScriptIdle
    /\ strings_in \in SeqsUpTo(Words, MaxStrings)
    /\ strings = strings_in
    /\ stdout = << >>
    /\ lpc = "sort"
    /\ test = "none"

\* strings.sort(key=lambda x: len(set(x)))
LambdaSort ==
    /\ lpc = "sort"
    /\ strings' = SortByKey(strings)
    /\ lpc' = "print"
    /\ UNCHANGED <<strings_in, stdout, test>>
    /\ UNCHANGED <<evars, xvars, cvars, svars, rvars>>

\* print(' '.join(strings)) into the captured stream
LambdaWrite ==
    /\ lpc = "print"
    /\ stdout' = stdout \o Join(<<" ">>, strings) \o <<"\n">>
    /\ lpc' = "assert"
    /\ UNCHANGED <<strings, strings_in, test>>
    /\ UNCHANGED <<evars, xvars, cvars, svars, rvars>>

\* self.assertEqual('aaaa foo abab bar card\n', f.getvalue())
AssertEqual ==
    /\ lpc = "assert"
    /\ test' = IF stdout = Expected THEN "ok" ELSE "fail"
    /\ lpc' = "done"
    /\ UNCHANGED <<strings, strings_in, stdout>>
    /\ UNCHANGED <<evars, xvars, cvars, svars, rvars>>

NextLambda ==
    \/ LambdaSort
    \/ LambdaWrite
    \/ AssertEqual

SpecLambda == InitLambda /\ [][NextLambda]_vars

\* ================================================================ claims

FLM == "find_longest_match"
GMB == "get_matching_blocks"
GOP == "get_opcodes"

\* the opcodes applied to s1 first to last, each with its own indices
RECURSIVE ApplyInOrder(_, _, _)
ApplyInOrder(s1, s2, ops) ==
    IF ops = << >> THEN s1
    ELSE ApplyInOrder(ApplyOpcode(s1, s2, Head(ops)), s2, Tail(ops))

\* the opcodes applied to s1 last to first, each with its own indices
RECURSIVE ApplyReversed(_, _, _)
ApplyReversed(s1, s2, ops) ==
    IF ops = << >> THEN s1
    ELSE ApplyReversed(ApplyOpcode(s1, s2, ops[Len(ops)]), s2, SubSeq(ops, 1, Len(ops) - 1))

\* C1 as stated: the opcodes of get_opcodes(), applied to a copy of a in the
\* order returned (first opcode first), each with its own indices, yield b.
C1_AppliedInOrderYieldsB ==
    op = GOP => ApplyInOrder(a, b, ret) = b

\* C1 as amended: the opcodes of get_opcodes(), applied to a copy of a last
\* opcode first (the order of reversed(get_opcodes())), each with its own
\* indices, yield b.
C1_AppliedInReverseYieldsB ==
    op = GOP => ApplyReversed(a, b, ret) = b

\* get_opcodes() returned an insert followed by other opcodes
C1_Witness ==
    /\ op = GOP
    /\ Len(ret) >= 3
    /\ ret[1][1] = "insert"
    /\ ApplyReversed(a, b, ret) = b
    /\ ApplyInOrder(a, b, ret) # b

\* b[j1:j2] of every opcode, concatenated in order
RECURSIVE ConcatB(_, _)
ConcatB(s2, ops) ==
    IF ops = << >> THEN << >>
    ELSE Slice(s2, Head(ops)[4], Head(ops)[5]) \o ConcatB(s2, Tail(ops))

\* C2: the opcodes of get_opcodes() tile a and b: the first starts at
\* i1 = 0, j1 = 0, each has i1 <= i2 and j1 <= j2, each starts where the one
\* before ends, the last ends at i2 = len(a), j2 = len(b), and the slices
\* b[j1:j2] concatenated in order are b.
C2_OpcodesTile ==
    op = GOP =>
        /\ ret # << >> =>
              /\ ret[1][2] = 0
              /\ ret[1][4] = 0
              /\ ret[Len(ret)][3] = Len(a)
              /\ ret[Len(ret)][5] = Len(b)
        /\ \A n \in 1..Len(ret) : ret[n][2] <= ret[n][3] /\ ret[n][4] <= ret[n][5]
        /\ \A n \in 2..Len(ret) : ret[n][2] = ret[n - 1][3] /\ ret[n][4] = ret[n - 1][5]
        /\ ConcatB(b, ret) = b

\* get_opcodes() returned at least three opcodes, one of them an equal
C2_Witness ==
    /\ op = GOP
    /\ Len(ret) >= 3
    /\ \E n \in 1..Len(ret) : ret[n][1] = "equal"
    /\ ConcatB(b, ret) = b

\* C3: the list of get_matching_blocks() ends with (len(a), len(b), 0), and
\* along the list the a index and the b index both increase strictly.
C3_BlocksEndWithSentinelAndIncrease ==
    op = GMB =>
        /\ ret # << >>
        /\ ret[Len(ret)] = <<Len(a), Len(b), 0>>
        /\ \A n \in 1..(Len(ret) - 1) : ret[n][1] < ret[n + 1][1] /\ ret[n][2] < ret[n + 1][2]

\* get_matching_blocks() returned two blocks and the sentinel, with junk in b
C3_Witness ==
    /\ op = GMB
    /\ Len(ret) >= 3
    /\ bjunk # {}
    /\ ret[Len(ret)] = <<Len(a), Len(b), 0>>

abcd == <<"a", "b", "c", "d">>
A_junk_demo == <<" ">> \o abcd
B_junk_demo == abcd \o <<" ">> \o abcd

\* C4: with a = " abcd" and b = "abcd abcd", find_longest_match(0, 5, 0, 9)
\* returns a match of size 4 whose slices are both "abcd" when the predicate
\* marks the space as junk, and the match of size 5 at a[0], " abcd", when no
\* predicate is given.
C4_JunkDemo ==
    (a = A_junk_demo /\ b = B_junk_demo /\ op = FLM /\ args = <<0, 5, 0, 9>>) =>
        IF IsJunk(isjunk, " ")
        THEN /\ ret[3] = 4
             /\ Slice(a, ret[1], ret[1] + ret[3]) = abcd
             /\ Slice(b, ret[2], ret[2] + ret[3]) = abcd
        ELSE /\ ret[1] = 0
             /\ ret[3] = 5
             /\ Slice(a, ret[1], ret[1] + ret[3]) = A_junk_demo
             /\ Slice(b, ret[2], ret[2] + ret[3]) = A_junk_demo

\* the query of the demo has returned on the matcher that treats spaces as junk
C4_Witness ==
    /\ a = A_junk_demo
    /\ b = B_junk_demo
    /\ IsJunk(isjunk, " ")
    /\ op = FLM
    /\ args = <<0, 5, 0, 9>>
    /\ ret = <<1, 0, 4>>

\* the elements of s whose key is k, in their order in s
RECURSIVE WithKey(_, _)
WithKey(s, k) ==
    IF s = << >> THEN << >>
    ELSE IF Key(Head(s)) = k THEN <<Head(s)>> \o WithKey(Tail(s), k)
    ELSE WithKey(Tail(s), k)

Count(s, w) == Cardinality({n \in 1..Len(s) : s[n] = w})

\* where the n-th string starts in ' '.join(s), counted from 0
RECURSIVE Offset(_, _)
Offset(s, n) == IF n <= 1 THEN 0 ELSE Offset(s, n - 1) + Len(s[n - 1]) + 1

\* out is the strings of s in order, one space between two of them, and a
\* newline at the end
Printed(out, s) ==
    IF s = << >> THEN out = <<"\n">>
    ELSE /\ Len(out) = Offset(s, Len(s)) + Len(s[Len(s)]) + 1
         /\ \A n \in 1..Len(s) :
               /\ \A c \in 1..Len(s[n]) : out[Offset(s, n) + c] = s[n][c]
               /\ out[Offset(s, n) + Len(s[n]) + 1] = (IF n = Len(s) THEN "\n" ELSE " ")

\* C5: lambda_test leaves the strings in ascending order of their number of
\* distinct characters, strings with the same number in their original
\* relative order, a permutation of the input; it prints them joined by
\* single spaces and ended by a newline; for ['foo', 'card', 'bar', 'aaaa',
\* 'abab'] the captured stdout is 'aaaa foo abab bar card\n' and the test
\* passes.
C5_LambdaSortsStablyByDistinctChars ==
    /\ lpc \in {"print", "assert", "done"} =>
          /\ \A m \in 1..Len(strings), n \in 1..Len(strings) :
                m < n => Key(strings[m]) <= Key(strings[n])
          /\ \A k \in {Key(w) : w \in Words} : WithKey(strings, k) = WithKey(strings_in, k)
          /\ Len(strings) = Len(strings_in)
          /\ \A w \in Words : Count(strings, w) = Count(strings_in, w)
    /\ lpc \in {"assert", "done"} =>
          /\ Printed(stdout, strings)
          /\ strings_in = Strings => stdout = Expected
    /\ (lpc = "done" /\ strings_in = Strings) => test = "ok"

\* the test has run on the list of the script and passed
C5_Witness ==
    /\ strings_in = Strings
    /\ strings = <<aaaa, foo, abab, bar, card>>
    /\ lpc = "done"
    /\ stdout = Expected
    /\ test = "ok"

\* C6 as stated: with b = a, find_longest_match(0, len(a), 0, len(a)) returns
\* (0, 0, len(a)), whatever the junk predicate marks.
C6_IdentityWithAnyJunk ==
    (a = b /\ op = FLM /\ args = <<0, Len(a), 0, Len(b)>>) => ret = <<0, 0, Len(a)>>

\* C6 as amended: with b = a, find_longest_match(0, len(a), 0, len(a)) returns
\* (0, 0, len(a)) when the junk predicate is absent, marks no element of a, or
\* marks every element of a (a empty included).
C6_IdentityWithNoneOrAllJunk ==
    (/\ a = b
     /\ op = FLM
     /\ args = <<0, Len(a), 0, Len(b)>>
     /\ (Junk(isjunk, a) = {} \/ Junk(isjunk, a) = Elements(a))) => ret = <<0, 0, Len(a)>>

\* a sequence of two different elements, all junk, was matched against itself
C6_Witness ==
    /\ a = b
    /\ Cardinality(Elements(a)) = 2
    /\ Junk(isjunk, a) = Elements(a)
    /\ op = FLM
    /\ args = <<0, Len(a), 0, Len(b)>>
    /\ ret = <<0, 0, Len(a)>>

\* C7: with a = [] get_opcodes() returns no opcode when b = [] and the single
\* opcode insert (0, 0, 0, len(b)) when b is not empty.
C7_EmptyInputs ==
    (a = << >> /\ op = GOP) =>
        ret = (IF b = << >> THEN << >> ELSE <<<<"insert", 0, 0, 0, Len(b)>>>>)

\* get_opcodes() has returned for a = [] and b = [1, 2, 3]
C7_Witness ==
    /\ a = << >>
    /\ b = <<"1", "2", "3">>
    /\ op = GOP
    /\ ret = <<<<"insert", 0, 0, 0, 3>>>>

\* C8: for non-empty a and b with no element in common get_opcodes() returns
\* the single opcode replace (0, len(a), 0, len(b)).
C8_DisjointInputs ==
    (/\ a # << >>
     /\ b # << >>
     /\ Elements(a) \cap Elements(b) = {}
     /\ op = GOP) => ret = <<<<"replace", 0, Len(a), 0, Len(b)>>>>

\* get_opcodes() has returned for a = ['x'] and b = ['y']
C8_Witness ==
    /\ a = <<"x">>
    /\ b = <<"y">>
    /\ op = GOP
    /\ ret = <<<<"replace", 0, 1, 0, 1>>>>

\* what the query in hand returns on a matcher just built from (isjunk, a, b)
FreshAnswer ==
    IF op = FLM THEN find_longest_match(New(isjunk, a, b), args[1], args[2], args[3], args[4])
    ELSE IF op = GMB THEN get_matching_blocks(New(isjunk, a, b))
    ELSE IF op = GOP THEN get_opcodes(New(isjunk, a, b))
    ELSE << >>

\* C9: whatever queries came before, a query returns what it returns on a
\* matcher just built from the same (isjunk, a, b) (so a second get_opcodes()
\* returns the list of the first), and no query changes a, b or the predicate.
C9_QueriesAnswerAsFresh ==
    /\ [](ret = FreshAnswer)
    /\ [][a' = a /\ b' = b /\ isjunk' = isjunk]_vars

\* a second get_opcodes() was answered from the stored list
C9_Witness ==
    /\ op = GOP
    /\ cached
    /\ Len(ret) >= 2
    /\ ret = FreshAnswer

\* the triple m names equal slices of a and b of length m[3] >= 0
EqualBlock(m) ==
    /\ m[3] >= 0
    /\ Len(Slice(a, m[1], m[1] + m[3])) = m[3]
    /\ Slice(a, m[1], m[1] + m[3]) = Slice(b, m[2], m[2] + m[3])

\* C10: the match of find_longest_match(alo, ahi, blo, bhi) and every block
\* of get_matching_blocks() has size >= 0 and names equal slices
\* a[i:i+size] == b[j:j+size]; the match of find_longest_match lies in the
\* ranges: alo <= i, i+size <= ahi, blo <= j, j+size <= bhi.
C10_MatchesAreEqualBlocksInRange ==
    /\ op = FLM =>
          /\ EqualBlock(ret)
          /\ args[1] <= ret[1]
          /\ ret[1] + ret[3] <= args[2]
          /\ args[3] <= ret[2]
          /\ ret[2] + ret[3] <= args[4]
    /\ op = GMB => \A n \in 1..Len(ret) : EqualBlock(ret[n])

\* a match of two elements or more was found in ranges that end before the
\* end of a and of b, where the next elements are equal too
C10_Witness ==
    /\ op = FLM
    /\ ret[3] >= 2
    /\ args[2] < Len(a)
    /\ args[4] < Len(b)
    /\ ret[1] + ret[3] = args[2]
    /\ ret[2] + ret[3] = args[4]
    /\ At(a, args[2]) = At(b, args[4])

\* ------------------- SequenceMatcher.ratio, quick_ratio, real_quick_ratio
\*
\* A ratio is the float 2.0 * matches / length, or 1.0 for length 0.  It is
\* held as the pair (numerator, denominator) of the exact quotient: a float
\* division is rounded to the nearest float, which keeps the order of two
\* quotients, and 0/n and n/n give exactly 0.0 and 1.0.

\* _calculate_ratio(matches, length)
calculate_ratio(matches, length) ==
    IF length # 0 THEN <<2 * matches, length>> ELSE <<1, 1>>

\* x <= y for two ratios
RatioLeq(x, y) == x[1] * y[2] <= y[1] * x[2]

\* sum(triple[-1] for triple in blocks)
RECURSIVE SumOfSizes(_)
SumOfSizes(blocks) ==
    IF blocks = << >> THEN 0
    ELSE blocks[1][3] + SumOfSizes(Tail(blocks))

ratio(self) ==
    calculate_ratio(SumOfSizes(get_matching_blocks(self)), Len(self.a) + Len(self.b))

\* for elt in self.b: fullbcount[elt] = fullbcount.get(elt, 0) + 1
FullBCount(s) == [elt \in Elements(s) |-> Len(Indices(s, elt))]

\* AvailLoop with "if numb >= 0"
RECURSIVE AvailLoop_CountsZero(_, _, _, _, _)
AvailLoop_CountsZero(s, n, fbc, avail, matches) ==
    IF n > Len(s) THEN matches
    ELSE AvailLoop_CountsZero(s, n + 1, fbc,
                   (s[n] :> (Get(avail, s[n], Get(fbc, s[n], 0)) - 1)) @@ avail,
                   IF Get(avail, s[n], Get(fbc, s[n], 0)) >= 0
                   THEN matches + 1 ELSE matches)

\* for elt in self.a: numb = avail[elt] if elt in avail else
\* fullbcount.get(elt, 0); avail[elt] = numb - 1; if numb > 0: matches += 1
RECURSIVE AvailLoop(_, _, _, _, _)
AvailLoop(s, n, fbc, avail, matches) ==
    IF n > Len(s) THEN matches
    ELSE AvailLoop(s, n + 1, fbc,
                   (s[n] :> (Get(avail, s[n], Get(fbc, s[n], 0)) - 1)) @@ avail,
                   IF Get(avail, s[n], Get(fbc, s[n], 0)) > 0
                   THEN matches + 1 ELSE matches)

\* the dict quick_ratio() works with: the stored one, or the one it builds
FullBCountOf(self) ==
    IF self.fullbcount # None THEN self.fullbcount[1] ELSE FullBCount(self.b)

quick_ratio(self) ==
    calculate_ratio(AvailLoop(self.a, 1, FullBCountOf(self), << >>, 0),
                    Len(self.a) + Len(self.b))

real_quick_ratio(self) ==
    calculate_ratio(Min(Len(self.a), Len(self.b)), Len(self.a) + Len(self.b))

InitRatio ==
    /\ LambdaIdle
    /\ ThreadsIdle
    /\ SearchIdle
    /\ ScriptIdle
    /\ \E s1 \in SeqsUpTo(Alphabet, MaxLenRatio), s2 \in SeqsUpTo(Alphabet, MaxLenRatio),
          pred \in {NoJunk} \cup {JunkOf(S) : S \in SUBSET Alphabet} :
            Construct(pred, s1, s2)

\* ratio() calls get_matching_blocks(), which stores its list
Ratio ==
    /\ op = "ready"
    /\ op' = "ratio"
    /\ cached' = (matching_blocks # None)
    /\ args' = << >>
    /\ ret' = ratio(Self)
    /\ matching_blocks' = Some(get_matching_blocks(Self))
    /\ UNCHANGED <<a, b, isjunk, b2j, bjunk, bpopular, opcodes>>
    /\ UNCHANGED <<lvars, xvars, cvars, svars, rvars>>

\* quick_ratio() stores fullbcount on its first call
QuickRatio ==
    /\ op = "ready"
    /\ op' = "quick_ratio"
    /\ cached' = (fullbcount # None)
    /\ args' = << >>
    /\ ret' = quick_ratio(Self)
    /\ fullbcount' = Some(FullBCountOf(Self))
    /\ UNCHANGED <<a, b, isjunk, b2j, bjunk, bpopular, matching_blocks, opcodes>>
    /\ UNCHANGED <<lvars, raised, cvars, svars, rvars>>

RealQuickRatio ==
    /\ op = "ready"
    /\ op' = "real_quick_ratio"
    /\ cached' = FALSE
    /\ args' = << >>
    /\ ret' = real_quick_ratio(Self)
    /\ UNCHANGED <<a, b, isjunk, b2j, bjunk, bpopular, matching_blocks, opcodes>>
    /\ UNCHANGED <<lvars, xvars, cvars, svars, rvars>>

NextRatio ==
    \/ Ratio
    \/ QuickRatio
    \/ RealQuickRatio
    \/ GetMatchingBlocks
    \/ Return

SpecRatio == InitRatio /\ [][NextRatio]_vars

\* ------------- pattern.search(text, pos) for re.compile(r'\b\w*is\w*\b')
\*
\* A text is the sequence of its characters.  The pattern is matched as the
\* backtracking engine matches it: \b, then \w* taking as many word
\* characters as it can and giving them back one at a time, then the literal
\* "is", then the second \w* in the same way, then \b.  \b looks at the
\* characters of the whole text on both sides, also when the search starts
\* at pos > 0.

\* the characters \w matches, among those of the texts of the model
WordChars ==
    {"a", "b", "c", "d", "e", "f", "g", "h", "i", "j", "k", "l", "m",
     "n", "o", "p", "q", "r", "s", "t", "u", "v", "w", "x", "y", "z",
     "A", "B", "C", "D", "E", "F", "G", "H", "I", "J", "K", "L", "M",
     "N", "O", "P", "Q", "R", "S", "T", "U", "V", "W", "X", "Y", "Z",
     "0", "1", "2", "3", "4", "5", "6", "7", "8", "9", "_"}

IsWord(c) == c \in WordChars

\* \b at position i of s: a word character on exactly one side
AtBoundary(s, i) ==
    (i > 0 /\ IsWord(At(s, i - 1))) # (i < Len(s) /\ IsWord(At(s, i)))

\* the number of word characters of s from position i on
RECURSIVE WordRun(_, _)
WordRun(s, i) ==
    IF i < Len(s) /\ IsWord(At(s, i)) THEN 1 + WordRun(s, i + 1) ELSE 0

\* the second \w* holding m characters from j, then \b: the end of the match,
\* or -1 when every m down to 0 fails
RECURSIVE TryTail(_, _, _)
TryTail(s, j, m) ==
    IF m < 0 THEN -1
    ELSE IF AtBoundary(s, j + m) THEN j + m
    ELSE TryTail(s, j, m - 1)

\* the first \w* holding k characters from i, then "is", then the rest: the
\* end of the match, or -1 when every k down to 0 fails
RECURSIVE TryHead(_, _, _)
RECURSIVE HeadStep(_, _, _, _)
HeadStep(s, i, k, e) ==
    IF e # -1 THEN e ELSE TryHead(s, i, k - 1)

TryHead(s, i, k) ==
    IF k < 0 THEN -1
    ELSE IF i + k + 1 < Len(s) /\ At(s, i + k) = "i" /\ At(s, i + k + 1) = "s"
         THEN HeadStep(s, i, k, TryTail(s, i + k + 2, WordRun(s, i + k + 2)))
    ELSE TryHead(s, i, k - 1)

\* the end of the match of the pattern that starts at i, or -1
MatchAt(s, i) ==
    IF AtBoundary(s, i) THEN TryHead(s, i, WordRun(s, i)) ELSE -1

\* pattern.search(s, p): the match at the first position from p on where the
\* pattern matches, as (start, end), or None
RECURSIVE search(_, _)
search(s, p) ==
    IF p > Len(s) THEN None
    ELSE IF MatchAt(s, p) # -1 THEN <<p, MatchAt(s, p)>>
    ELSE search(s, p + 1)

\* text = 'This is some text -- with punctuation.'
ScriptText ==
    <<"T", "h", "i", "s", " ", "i", "s", " ", "s", "o", "m", "e", " ",
      "t", "e", "x", "t", " ", "-", "-", " ", "w", "i", "t", "h", " ",
      "p", "u", "n", "c", "t", "u", "a", "t", "i", "o", "n", ".">>

TextAlphabet == {"i", "s", "x", " "}

\* the script's text, and every short text over i, s, another word character
\* and a space; pos = 0
InitSearch ==
    /\ Construct(NoJunk, << >>, << >>)
    /\ LambdaIdle
    /\ ThreadsIdle
    /\ ScriptIdle
    /\ text \in SeqsUpTo(TextAlphabet, MaxTextLen) \cup {ScriptText}
    /\ pos = 0
    /\ found = << >>
    /\ rpc = "loop"

\* SearchMatch with "pos = s": the next search starts where the match starts
SearchMatch_FromStart ==
    /\ rpc = "loop"
    /\ search(text, pos) # None
    /\ found' = Append(found, <<search(text, pos)[1], search(text, pos)[2] - 1,
                                Slice(text, search(text, pos)[1], search(text, pos)[2])>>)
    /\ pos' = search(text, pos)[1]
    /\ UNCHANGED <<text, rpc>>
    /\ UNCHANGED <<evars, lvars, xvars, cvars, svars>>

\* a pass with a match: s = match.start(); e = match.end();
\* print(s, e - 1, text[s:e]); pos = e
SearchMatch ==
    /\ rpc = "loop"
    /\ search(text, pos) # None
    /\ found' = Append(found, <<search(text, pos)[1], search(text, pos)[2] - 1,
                                Slice(text, search(text, pos)[1], search(text, pos)[2])>>)
    /\ pos' = search(text, pos)[2]
    /\ UNCHANGED <<text, rpc>>
    /\ UNCHANGED <<evars, lvars, xvars, cvars, svars>>

\* the pass without a match: break
SearchBreak ==
    /\ rpc = "loop"
    /\ search(text, pos) = None
    /\ rpc' = "done"
    /\ UNCHANGED <<text, pos, found>>
    /\ UNCHANGED <<evars, lvars, xvars, cvars, svars>>

NextSearch ==
    \/ SearchMatch
    \/ SearchBreak

\* the loop is sequential code: it takes its next pass as long as it has one
SpecSearch == InitSearch /\ [][NextSearch]_vars /\ WF_vars(NextSearch)

\* ------------------- the loop of the script over reversed(get_opcodes())
\*
\* matcher = difflib.SequenceMatcher(None, s1, s2) keeps references to the two
\* lists: a is s1 and b is s2, so the loop's edits of s1 are edits of a.

\* the script's lists, and every pair of short lists
InitScript ==
    /\ LambdaIdle
    /\ ThreadsIdle
    /\ SearchIdle
    /\ s1_in = << >>
    /\ todo = << >>
    /\ last = << >>
    /\ spc = "start"
    /\ \/ \E s1 \in SeqsUpTo(Alphabet, MaxLenScript), s2 \in SeqsUpTo(Alphabet, MaxLenScript) :
             Construct(NoJunk, s1, s2)
       \/ Construct(NoJunk, <<"1", "2", "3", "5", "6", "4">>,
                    <<"2", "3", "5", "4", "6", "1">>)

\* reversed(matcher.get_opcodes()), evaluated once before the first pass
ScriptGetOpcodes ==
    /\ spc = "start"
    /\ spc' = "loop"
    /\ opcodes' = Some(get_opcodes(Self))
    /\ matching_blocks' = Some(get_matching_blocks(Self))
    /\ todo' = opcodes'[1]
    /\ s1_in' = a
    /\ last' = << >>
    /\ UNCHANGED <<a, b, isjunk, b2j, bjunk, bpopular, op, args, ret, cached>>
    /\ UNCHANGED <<lvars, xvars, cvars, rvars>>

\* ScriptApply that walks the opcodes in the order returned
ScriptApply_Forward ==
    /\ spc = "loop"
    /\ todo # << >>
    /\ a' = ApplyOpcode(a, b, Head(todo))
    /\ last' = Head(todo)
    /\ todo' = Tail(todo)
    /\ UNCHANGED <<s1_in, spc>>
    /\ UNCHANGED <<b, isjunk, b2j, bjunk, bpopular, matching_blocks, opcodes,
                   op, args, ret, cached>>
    /\ UNCHANGED <<lvars, xvars, cvars, rvars>>

\* one pass of the loop: the next opcode of the reversed list is the last one
\* not yet taken
ScriptApply ==
    /\ spc = "loop"
    /\ todo # << >>
    /\ a' = ApplyOpcode(a, b, todo[Len(todo)])
    /\ last' = todo[Len(todo)]
    /\ todo' = SubSeq(todo, 1, Len(todo) - 1)
    /\ UNCHANGED <<s1_in, spc>>
    /\ UNCHANGED <<b, isjunk, b2j, bjunk, bpopular, matching_blocks, opcodes,
                   op, args, ret, cached>>
    /\ UNCHANGED <<lvars, xvars, cvars, rvars>>

\* the loop is over: print('s1 == s2: ', s1 == s2)
ScriptEnd ==
    /\ spc = "loop"
    /\ todo = << >>
    /\ spc' = "done"
    /\ UNCHANGED <<s1_in, todo, last>>
    /\ UNCHANGED <<a, b, isjunk, b2j, bjunk, bpopular, matching_blocks, opcodes,
                   op, args, ret, cached>>
    /\ UNCHANGED <<lvars, xvars, cvars, rvars>>

NextScript ==
    \/ ScriptGetOpcodes
    \/ ScriptApply
    \/ ScriptEnd

SpecScript == InitScript /\ [][NextScript]_vars

\* ------------------------------- threads querying one matcher, no lock
\*
\* A thread switch can happen between any two bytecodes.  A step below is a
\* stretch of one method that reads or writes the shared attributes
\* self.matching_blocks and self.opcodes at most once; a, b, b2j and bjunk are
\* not written after construction.  A list is shared by reference: the list
\* self.opcodes refers to is the list "answer" of the thread owner, and
\* opcodes holds its content.  tret[t] is the content of the list a call
\* returned, as its caller finds it when the call returns.

InitConc ==
    /\ LambdaIdle
    /\ ThreadsIdle
    /\ SearchIdle
    /\ ScriptIdle
    /\ \E s1 \in SeqsUpTo(Alphabet, MaxLenConc), s2 \in SeqsUpTo(Alphabet, MaxLenConc),
          pred \in {NoJunk} \cup {JunkOf(S) : S \in SUBSET Alphabet} :
            Construct(pred, s1, s2)

\* what no step of a thread writes
ThreadFrame ==
    UNCHANGED <<a, b, isjunk, b2j, bjunk, bpopular, op, args, ret, cached,
                lvars, xvars, svars, rvars>>

\* find_longest_match(0, len(a), 0, len(b)), the call of the script: reads a,
\* b, b2j and bjunk only
ThreadFindLongestMatch(t) ==
    /\ pc[t] = "idle"
    /\ pc' = [pc EXCEPT ![t] = "done"]
    /\ loc' = [loc EXCEPT ![t] = [IdleLoc EXCEPT !.op = "find_longest_match",
                                                 !.args = <<0, Len(a), 0, Len(b)>>]]
    /\ tret' = [tret EXCEPT ![t] = find_longest_match(Self, 0, Len(a), 0, Len(b))]
    /\ UNCHANGED <<matching_blocks, opcodes, owner>>
    /\ ThreadFrame

\* a thread enters get_matching_blocks()
ThreadGetMatchingBlocks(t) ==
    /\ pc[t] = "idle"
    /\ pc' = [pc EXCEPT ![t] = "gmb_check"]
    /\ loc' = [loc EXCEPT ![t] = [IdleLoc EXCEPT !.op = "get_matching_blocks"]]
    /\ UNCHANGED <<matching_blocks, opcodes, owner, tret>>
    /\ ThreadFrame

\* a thread enters get_opcodes()
ThreadGetOpcodes(t) ==
    /\ pc[t] = "idle"
    /\ pc' = [pc EXCEPT ![t] = "gop_check"]
    /\ loc' = [loc EXCEPT ![t] = [IdleLoc EXCEPT !.op = "get_opcodes"]]
    /\ UNCHANGED <<matching_blocks, opcodes, owner, tret>>
    /\ ThreadFrame

\* get_matching_blocks() hands blocks to its caller: the thread itself, or
\* the loop of get_opcodes()
GmbReturn(t, blocks) ==
    IF loc[t].op = "get_matching_blocks"
    THEN /\ pc' = [pc EXCEPT ![t] = "done"]
         /\ tret' = [tret EXCEPT ![t] = blocks]
         /\ loc' = loc
    ELSE /\ pc' = [pc EXCEPT ![t] = "gop_diff"]
         /\ tret' = tret
         /\ loc' = [loc EXCEPT ![t].blocks = blocks, ![t].n = 1]

\* if self.matching_blocks is not None: return self.matching_blocks
GmbCheck(t) ==
    /\ pc[t] = "gmb_check"
    /\ IF matching_blocks # None
       THEN GmbReturn(t, matching_blocks[1])
       ELSE /\ pc' = [pc EXCEPT ![t] = "gmb_compute"]
            /\ UNCHANGED <<loc, tret>>
    /\ UNCHANGED <<matching_blocks, opcodes, owner>>
    /\ ThreadFrame

\* the queue, the sort and the merge work on locals; then
\* self.matching_blocks = list(map(Match._make, non_adjacent)); return it
GmbStore(t) ==
    /\ pc[t] = "gmb_compute"
    /\ matching_blocks' = Some(ComputeMatchingBlocks(Self))
    /\ GmbReturn(t, matching_blocks'[1])
    /\ UNCHANGED <<opcodes, owner>>
    /\ ThreadFrame

\* if self.opcodes is not None: return self.opcodes
GopCheck(t) ==
    /\ pc[t] = "gop_check"
    /\ IF opcodes # None
       THEN /\ pc' = [pc EXCEPT ![t] = "done"]
            /\ tret' = [tret EXCEPT ![t] = opcodes[1]]
       ELSE /\ pc' = [pc EXCEPT ![t] = "gop_publish"]
            /\ tret' = tret
    /\ UNCHANGED <<loc, matching_blocks, opcodes, owner>>
    /\ ThreadFrame

\* i = j = 0; self.opcodes = answer = []; then the call of
\* self.get_matching_blocks()
GopPublish(t) ==
    /\ pc[t] = "gop_publish"
    /\ owner' = t
    /\ opcodes' = Some(<< >>)
    /\ loc' = [loc EXCEPT ![t].i = 0, ![t].j = 0, ![t].answer = << >>]
    /\ pc' = [pc EXCEPT ![t] = "gmb_check"]
    /\ UNCHANGED <<matching_blocks, tret>>
    /\ ThreadFrame

\* the thread's list is now "answer"; so is self.opcodes if it refers to it
SetAnswer(t, answer) ==
    /\ loc' = [loc EXCEPT ![t].answer = answer]
    /\ opcodes' = IF owner = t THEN Some(answer) ELSE opcodes

\* the next block of the for loop: the part of the body up to
\* "if tag: answer.append((tag, i, ai, j, bj))"; after the last block,
\* "return answer"
GopDiff(t) ==
    /\ pc[t] = "gop_diff"
    /\ IF loc[t].n > Len(loc[t].blocks)
       THEN /\ pc' = [pc EXCEPT ![t] = "done"]
            /\ tret' = [tret EXCEPT ![t] = loc[t].answer]
            /\ UNCHANGED <<loc, opcodes>>
       ELSE /\ pc' = [pc EXCEPT ![t] = "gop_equal"]
            /\ tret' = tret
            /\ SetAnswer(t, OpcodeLoop(<<<<loc[t].blocks[loc[t].n][1],
                                           loc[t].blocks[loc[t].n][2], 0>>>>,
                                       1, loc[t].i, loc[t].j, loc[t].answer))
    /\ UNCHANGED <<matching_blocks, owner>>
    /\ ThreadFrame

\* the rest of the body: i, j = ai+size, bj+size;
\* if size: answer.append(('equal', ai, i, bj, j))
GopEqual(t) ==
    /\ pc[t] = "gop_equal"
    /\ pc' = [pc EXCEPT ![t] = "gop_diff"]
    /\ loc' = [loc EXCEPT
                 ![t].answer = OpcodeLoop(<<loc[t].blocks[loc[t].n]>>, 1,
                                          loc[t].blocks[loc[t].n][1],
                                          loc[t].blocks[loc[t].n][2], loc[t].answer),
                 ![t].i = loc[t].blocks[loc[t].n][1] + loc[t].blocks[loc[t].n][3],
                 ![t].j = loc[t].blocks[loc[t].n][2] + loc[t].blocks[loc[t].n][3],
                 ![t].n = loc[t].n + 1]
    /\ opcodes' = IF owner = t THEN Some(loc'[t].answer) ELSE opcodes
    /\ UNCHANGED <<matching_blocks, owner, tret>>
    /\ ThreadFrame

\* the caller has read the result and is free for its next query
ThreadReturn(t) ==
    /\ pc[t] = "done"
    /\ pc' = [pc EXCEPT ![t] = "idle"]
    /\ loc' = [loc EXCEPT ![t] = IdleLoc]
    /\ tret' = [tret EXCEPT ![t] = << >>]
    /\ UNCHANGED <<matching_blocks, opcodes, owner>>
    /\ ThreadFrame

NextConc ==
    \E t \in Threads :
        \/ ThreadFindLongestMatch(t)
        \/ ThreadGetMatchingBlocks(t)
        \/ ThreadGetOpcodes(t)
        \/ GmbCheck(t)
        \/ GmbStore(t)
        \/ GopCheck(t)
        \/ GopPublish(t)
        \/ GopDiff(t)
        \/ GopEqual(t)
        \/ ThreadReturn(t)

SpecConc == InitConc /\ [][NextConc]_vars

\* ------------------------------------------------------------------ C11

\* alo <= ahi and blo <= bhi
ValidRange(r) == r[1] <= r[2] /\ r[3] <= r[4]

\* C11 as stated: find_longest_match with an invalid range (alo > ahi or
\* blo > bhi) reports an InvalidRange error instead of a match.
C11_InvalidRangeIsReported ==
    (op = FLM /\ ~ValidRange(args)) => raised = "InvalidRange"

\* C11, what the code does instead: find_longest_match with an inverted range
\* (alo > ahi or blo > bhi, the four indices within the sequences) raises
\* nothing and returns the empty match (alo, blo, 0); the call changes no field
\* of the matcher, and every query, before or after it, answers as on a
\* matcher just built.
C11_InvertedRangeGivesEmptyMatch ==
    /\ []((op = FLM /\ ~ValidRange(args)) => (raised = "" /\ ret = <<args[1], args[3], 0>>))
    /\ [](ret = FreshAnswer /\ raised = "")
    /\ [][(op' = FLM /\ ~ValidRange(args')) =>
             <<a, b, isjunk, b2j, bjunk, bpopular, matching_blocks, opcodes>>' =
             <<a, b, isjunk, b2j, bjunk, bpopular, matching_blocks, opcodes>>]_vars

\* an inverted range over elements that do match, asked of a matcher that
\* holds its blocks and opcodes from earlier queries
C11_Witness ==
    /\ op = FLM
    /\ args[3] > args[4]
    /\ args[1] < args[2]
    /\ \E i \in args[1]..(args[2] - 1) : \E j \in args[3]..(Len(b) - 1) : At(a, i) = At(b, j)
    /\ ret = <<args[1], args[3], 0>>
    /\ raised = ""
    /\ matching_blocks # None
    /\ opcodes # None

\* ------------------------------------------------------------------ C12

\* what the call thread t is in returns when no other thread is running, on
\* a matcher just built from the same (isjunk, a, b)
AloneAnswer(t) ==
    IF loc[t].op = FLM
    THEN find_longest_match(New(isjunk, a, b), loc[t].args[1], loc[t].args[2],
                            loc[t].args[3], loc[t].args[4])
    ELSE IF loc[t].op = GMB THEN get_matching_blocks(New(isjunk, a, b))
    ELSE IF loc[t].op = GOP THEN get_opcodes(New(isjunk, a, b))
    ELSE << >>

\* C12 as stated: threads query one matcher without a lock, a and b are
\* never changed; under every interleaving of the steps of
\* find_longest_match, get_matching_blocks and get_opcodes, every query
\* returns what it returns when it runs alone.
C12_ConcurrentQueriesAnswerAsAlone ==
    \A t \in Threads : pc[t] = "done" => tret[t] = AloneAnswer(t)

\* C12, the part the code keeps: find_longest_match and get_matching_blocks
\* return what they return alone under every interleaving.
C12_MatchesAndBlocksAnswerAsAlone ==
    \A t \in Threads :
        (pc[t] = "done" /\ loc[t].op \in {FLM, GMB}) => tret[t] = AloneAnswer(t)

\* a get_opcodes() returned the list another thread is still filling
C12_Witness ==
    \E t \in Threads :
        /\ pc[t] = "done"
        /\ loc[t].op = GOP
        /\ Len(tret[t]) < Len(AloneAnswer(t))
        /\ Len(tret[t]) > 0

\* ------------------------------------------------------------------ C13

\* C13: the loop over reversed(matcher.get_opcodes()) ends with s1 == s2;
\* after each pass, for its opcode (tag, i1, i2, j1, j2), s1[i1:] == s2[j1:]
\* and s1[:i1] is still what it was before the loop; s2 is never modified.
C13_ScriptLoopTurnsS1IntoS2 ==
    /\ [](last # << >> =>
             /\ Slice(a, last[2], Len(a)) = Slice(b, last[4], Len(b))
             /\ Slice(a, 0, last[2]) = Slice(s1_in, 0, last[2]))
    /\ [](spc = "done" => a = b)
    /\ [][b' = b]_vars

\* the script's own lists after the last pass, which took the first opcode,
\* the delete of s1[0:1]
C13_Witness ==
    /\ spc = "done"
    /\ s1_in = <<"1", "2", "3", "5", "6", "4">>
    /\ b = <<"2", "3", "5", "4", "6", "1">>
    /\ a = b
    /\ last = <<"delete", 0, 1, 0, 0>>
    /\ Len(opcodes[1]) = 5

\* ------------------------------------------------------------------ C14

\* a[i:i+k] == b[j:j+k], for a block that lies within a and b
IsBlock(i, j, k) == \A d \in 0..(k - 1) : At(a, i + d) = At(b, j + d)

\* m is an equal block inside the ranges r = (alo, ahi, blo, bhi), and no
\* equal block inside them is longer, or as long with a smaller a, or as long
\* with the same a and a smaller b
LongestLeftmost(m, r) ==
    /\ r[1] <= m[1]
    /\ m[1] + m[3] <= r[2]
    /\ r[3] <= m[2]
    /\ m[2] + m[3] <= r[4]
    /\ IsBlock(m[1], m[2], m[3])
    /\ \A i \in r[1]..r[2], j \in r[3]..r[4] :
          \A k \in 0..Min(r[2] - i, r[4] - j) :
             IsBlock(i, j, k) =>
                \/ k < m[3]
                \/ k = m[3] /\ i > m[1]
                \/ k = m[3] /\ i = m[1] /\ j >= m[2]

\* C14 as stated: for every a, b, junk predicate and valid range,
\* find_longest_match returns a longest equal block inside the ranges, among
\* the longest the one with the smallest a, among those the one with the
\* smallest b.
C14_LongestLeftmostWithAnyJunk ==
    op = FLM => LongestLeftmost(ret, args)

\* C14 as amended: the same when no element of b is junk (no predicate, or
\* one that accepts no element of b) and none is popular (autojunk, for b of
\* 200 elements or more).
C14_LongestLeftmostWithoutJunk ==
    (op = FLM /\ bjunk = {} /\ bpopular = {}) => LongestLeftmost(ret, args)

\* a tie: no junk in b, and another block as long as the one returned starts
\* at a larger a
C14_Witness ==
    /\ op = FLM
    /\ bjunk = {}
    /\ bpopular = {}
    /\ ret[3] >= 1
    /\ LongestLeftmost(ret, args)
    /\ \E i \in (ret[1] + 1)..(args[2] - ret[3]) :
          \E j \in args[3]..(ret[2] - 1) : IsBlock(i, j, ret[3])

\* ------------------------------------------------------------------ C15

\* where block n of blocks ends in a and in b; (0, 0) before the first block
BlockEnd(blocks, n) ==
    IF n = 0 THEN <<0, 0>>
    ELSE <<blocks[n][1] + blocks[n][3], blocks[n][2] + blocks[n][3]>>

\* the tag for the gap between (i, j) and the block at (ai, bj): replace for
\* a gap in both, onlyA for a gap in a only, onlyB for a gap in b only, ""
\* for no gap
GapTag(i, ai, j, bj, onlyA, onlyB) ==
    IF i < ai /\ j < bj THEN "replace"
    ELSE IF i < ai THEN onlyA
    ELSE IF j < bj THEN onlyB
    ELSE ""

\* ops holds, for every block, the opcode of the gap before it (if there is
\* a gap) with the tag GapTag gives and the opcode equal of the block itself
\* (if its size is not 0), and nothing else
TagsFollowBlocks(ops, blocks, onlyA, onlyB) ==
    /\ \A n \in 1..Len(blocks) :
          /\ GapTag(BlockEnd(blocks, n - 1)[1], blocks[n][1],
                    BlockEnd(blocks, n - 1)[2], blocks[n][2], onlyA, onlyB) # "" =>
                \E m \in 1..Len(ops) :
                    ops[m] = <<GapTag(BlockEnd(blocks, n - 1)[1], blocks[n][1],
                                      BlockEnd(blocks, n - 1)[2], blocks[n][2],
                                      onlyA, onlyB),
                               BlockEnd(blocks, n - 1)[1], blocks[n][1],
                               BlockEnd(blocks, n - 1)[2], blocks[n][2]>>
          /\ blocks[n][3] > 0 =>
                \E m \in 1..Len(ops) :
                    ops[m] = <<"equal", blocks[n][1], BlockEnd(blocks, n)[1],
                               blocks[n][2], BlockEnd(blocks, n)[2]>>
    /\ Len(ops) =
          Cardinality({n \in 1..Len(blocks) :
                          GapTag(BlockEnd(blocks, n - 1)[1], blocks[n][1],
                                 BlockEnd(blocks, n - 1)[2], blocks[n][2],
                                 onlyA, onlyB) # ""})
          + Cardinality({n \in 1..Len(blocks) : blocks[n][3] > 0})

\* C15 as stated: between consecutive matching blocks, a gap in a but not in
\* b gives insert, a gap in b but not in a gives delete, a gap in both gives
\* replace; each block of size > 0 gives equal, the sentinel nothing.
C15_GapInAIsInsert ==
    op = GOP => TagsFollowBlocks(ret, matching_blocks[1], "insert", "delete")

\* C15 as amended: a gap in a but not in b gives delete, a gap in b but not
\* in a gives insert; the rest as stated.
C15_GapInAIsDelete ==
    op = GOP => TagsFollowBlocks(ret, matching_blocks[1], "delete", "insert")

\* the opcodes of the script's lists: all four tags, the delete for the gap
\* a[0:1] before the first block, the insert for the gap b[3:4]
C15_Witness ==
    /\ op = GOP
    /\ ret = <<<<"delete", 0, 1, 0, 0>>, <<"equal", 1, 4, 0, 3>>,
               <<"insert", 4, 4, 3, 4>>, <<"equal", 4, 5, 4, 5>>,
               <<"replace", 5, 6, 5, 6>>>>
    /\ matching_blocks[1] = <<<<1, 0, 3>>, <<4, 4, 1>>, <<6, 6, 0>>>>

\* ------------------------------------------------------------------ C16

\* the opcode o = (tag, i1, i2, j1, j2) has the shape its tag promises
ShapeOfTag(o) ==
    IF o[1] = "delete" THEN o[2] < o[3] /\ o[4] = o[5]
    ELSE IF o[1] = "insert" THEN o[2] = o[3] /\ o[4] < o[5]
    ELSE IF o[1] = "replace" THEN o[2] < o[3] /\ o[4] < o[5]
    ELSE IF o[1] = "equal"
         THEN /\ o[3] - o[2] = o[5] - o[4]
              /\ o[3] - o[2] > 0
              /\ o[3] <= Len(a)
              /\ o[5] <= Len(b)
              /\ Slice(a, o[2], o[3]) = Slice(b, o[4], o[5])
    ELSE FALSE

\* C16: every opcode (tag, i1, i2, j1, j2) of get_opcodes() has the shape of
\* its tag: delete i1 < i2 and j1 == j2; insert i1 == i2 and j1 < j2; replace
\* i1 < i2 and j1 < j2; equal i2 - i1 == j2 - j1 > 0 and a[i1:i2] == b[j1:j2].
C16_OpcodesHaveTheShapeOfTheirTag ==
    op = GOP => \A m \in 1..Len(ret) : ShapeOfTag(ret[m])

\* opcodes with each of the four tags in one answer
C16_Witness ==
    /\ op = GOP
    /\ \A tag \in {"delete", "insert", "replace", "equal"} :
          \E m \in 1..Len(ret) : ret[m][1] = tag /\ ShapeOfTag(ret[m])

\* ------------------------------------------------------------------ C17

\* the pair just left of the match m is equal and inside the ranges r
LeftPairEqual(m, r) ==
    /\ m[1] > r[1]
    /\ m[2] > r[3]
    /\ At(a, m[1] - 1) = At(b, m[2] - 1)

\* the pair just right of the match m is equal and inside the ranges r
RightPairEqual(m, r) ==
    /\ m[1] + m[3] < r[2]
    /\ m[2] + m[3] < r[4]
    /\ At(a, m[1] + m[3]) = At(b, m[2] + m[3])

\* C17 as stated: the match (a, b, size) of find_longest_match is widened on
\* both sides until a range boundary or a non-matching pair stops it, junk or
\* not: a == alo or b == blo or A[a-1] != B[b-1], and a+size == ahi or
\* b+size == bhi or A[a+size] != B[b+size].
C17_WidenedToBoundaryOrMismatch ==
    op = FLM => (~LeftPairEqual(ret, args) /\ ~RightPairEqual(ret, args))

\* C17 as amended: the widening stops at a range boundary, at a non-matching
\* pair, or at an equal pair that is not junk right after junk the match took
\* in: an equal pair left of the match has B[b-1] not junk and B[b] junk, an
\* equal pair right of it has B[b+size] not junk and B[b+size-1] junk (the
\* match not empty).
C17_WidenedUntilNonJunkAfterJunk ==
    op = FLM =>
        /\ LeftPairEqual(ret, args) =>
              /\ ret[3] > 0
              /\ At(b, ret[2] - 1) \notin bjunk
              /\ At(b, ret[2]) \in bjunk
        /\ RightPairEqual(ret, args) =>
              /\ ret[3] > 0
              /\ At(b, ret[2] + ret[3]) \notin bjunk
              /\ At(b, ret[2] + ret[3] - 1) \in bjunk

\* a match that took in a junk element on its right and stopped before an
\* equal pair that is not junk
C17_Witness ==
    /\ op = FLM
    /\ ret[3] >= 2
    /\ RightPairEqual(ret, args)
    /\ At(b, ret[2] + ret[3] - 1) \in bjunk
    /\ At(b, ret[2] + ret[3] - 2) \notin bjunk

\* ------------------------------------------------------------------ C18

\* the pairs (i, j) inside the ranges r with a[i] == b[j]
EqualPairs(r) ==
    {p \in (r[1]..(r[2] - 1)) \X (r[3]..(r[4] - 1)) : At(a, p[1]) = At(b, p[2])}

\* C18 as stated: find_longest_match returns exactly (alo, blo, 0) when no
\* element of a[alo:ahi] equals an element of b[blo:bhi], and a match of
\* size > 0 whenever some pair of equal elements exists in the ranges, also
\* when every common element is junk.
C18_EmptyOnlyWithoutEqualPair ==
    op = FLM =>
        /\ EqualPairs(args) = {} => ret = <<args[1], args[3], 0>>
        /\ EqualPairs(args) # {} => ret[3] > 0

\* C18 as amended: (alo, blo, 0) when there is no equal pair; size > 0 when
\* some equal pair is neither junk nor popular in b; when every equal pair is
\* junk, size > 0 exactly when a[alo] == b[blo], the only place a match of
\* junk alone can start.
C18_JunkOnlyMatchStartsAtLo ==
    op = FLM =>
        /\ EqualPairs(args) = {} => ret = <<args[1], args[3], 0>>
        /\ (\E p \in EqualPairs(args) : At(b, p[2]) \notin (bjunk \cup bpopular)) =>
              ret[3] > 0
        /\ (EqualPairs(args) # {} /\ \A p \in EqualPairs(args) : At(b, p[2]) \in bjunk) =>
              /\ ret[3] > 0 <=> At(a, args[1]) = At(b, args[3])
              /\ ret[1] = args[1]
              /\ ret[2] = args[3]

\* a match made of junk alone, while another equal pair lies further on
C18_Witness ==
    /\ op = FLM
    /\ ret[3] > 0
    /\ \A p \in EqualPairs(args) : At(b, p[2]) \in bjunk
    /\ \E p \in EqualPairs(args) : p[1] >= ret[1] + ret[3] /\ p[2] > ret[2] + ret[3]

\* ------------------------------------------------------------------ C19

\* C19: in the list of get_matching_blocks(), a block ends where the next
\* starts or before it, in a and in b, and no two consecutive blocks before
\* the sentinel touch in both a and b: those were merged.
C19_BlocksDisjointAndMerged ==
    op = GMB =>
        \A n \in 1..(Len(ret) - 1) :
            /\ ret[n][1] + ret[n][3] <= ret[n + 1][1]
            /\ ret[n][2] + ret[n][3] <= ret[n + 1][2]
            /\ n + 1 < Len(ret) =>
                  ~(/\ ret[n][1] + ret[n][3] = ret[n + 1][1]
                    /\ ret[n][2] + ret[n][3] = ret[n + 1][2])

\* a list whose block before the sentinel was merged from two blocks found,
\* which touched in a and in b
C19_Witness ==
    /\ op = GMB
    /\ Len(ret) = 2
    /\ Len(QueueLoop(New(isjunk, a, b), <<<<0, Len(a), 0, Len(b)>>>>, << >>)) = 2

\* ------------------------------------------------------------------ C20

QR == "quick_ratio"
RQR == "real_quick_ratio"

\* 0 <= x <= 1 for a ratio x
InUnitInterval(x) == RatioLeq(<<0, 1>>, x) /\ RatioLeq(x, <<1, 1>>)

\* 2*M / (len(a) + len(b)) <= x, with M the total size of the blocks of
\* get_matching_blocks(); for two empty sequences the quotient is ratio(), 1.0
FullSimilarityLeq(x) ==
    IF Len(a) + Len(b) > 0
    THEN 2 * SumOfSizes(get_matching_blocks(Self)) * x[2] <= x[1] * (Len(a) + Len(b))
    ELSE RatioLeq(ratio(Self), x)

\* C20: quick_ratio() and real_quick_ratio() are in [0, 1] and
\* 2*M/(len(a)+len(b)) <= quick_ratio() <= real_quick_ratio() <= 1; neither
\* depends on a call of find_longest_match: they leave the stored blocks and
\* opcodes as they are and return the same whether or not the blocks have
\* been computed.
C20_QuickRatiosBoundRatioFromAbove ==
    /\ [](op = QR =>
             /\ InUnitInterval(ret)
             /\ FullSimilarityLeq(ret)
             /\ RatioLeq(ret, real_quick_ratio(Self))
             /\ ret = quick_ratio(New(isjunk, a, b)))
    /\ [](op = RQR =>
             /\ InUnitInterval(ret)
             /\ FullSimilarityLeq(ret)
             /\ RatioLeq(quick_ratio(Self), ret)
             /\ ret = real_quick_ratio(New(isjunk, a, b)))
    /\ [][op' \in {QR, RQR} =>
             matching_blocks' = matching_blocks /\ opcodes' = opcodes]_vars

\* quick_ratio() strictly between the full similarity and real_quick_ratio(),
\* answered from the stored fullbcount, the blocks never computed
C20_Witness ==
    /\ op = QR
    /\ cached
    /\ matching_blocks = None
    /\ ~RatioLeq(ret, ratio(Self))
    /\ ~RatioLeq(real_quick_ratio(Self), ret)

\* ------------------------------------------------------------------ C21

\* C21: the search loop (pos = 0; match = pattern.search(text, pos); break
\* without a match; else print and pos = match.end()) terminates for the
\* pattern \b\w*is\w*\b: every match is non-empty, so pos grows with every
\* match and stays <= len(text); the matches printed do not overlap and
\* start in increasing order.
C21_SearchLoopTerminates ==
    /\ <>(rpc = "done")
    /\ [][found' # found => pos' > pos]_vars
    /\ [][pos' >= pos]_vars
    /\ [](pos <= Len(text))
    /\ [](\A n \in 1..Len(found) :
             /\ found[n][1] <= found[n][2]
             /\ Len(found[n][3]) = found[n][2] - found[n][1] + 1
             /\ n < Len(found) => found[n][2] < found[n + 1][1])

\* the loop has ended on the script's text, after "This" at 0..3 and "is" at
\* 5..6; the last search started at 7
C21_Witness ==
    /\ rpc = "done"
    /\ text = ScriptText
    /\ found = <<<<0, 3, <<"T", "h", "i", "s">>>>, <<5, 6, <<"i", "s">>>>>>
    /\ pos = 7
====
